---------------------------- MODULE Spec2Model ----------------------------
(***************************************************************************)
(* Model of utils.py: four helpers around a remote video-platform API.    *)
(*                                                                         *)
(*   get_channel_id_by_name   one search request, exceptions "handled"     *)
(*   get_channel_stats        one channels.list request                    *)
(*   get_video_ids            playlistItems.list, page after page          *)
(*   get_video_details        videos.list, 50 identifiers per request      *)
(*                                                                         *)
(* Python values are modelled as follows: a dict is a function on its      *)
(* keys (a record), a list is a sequence, identifiers / titles / counts /  *)
(* page tokens are positive integers, None is the integer None, and the    *)
(* string built by ','.join(...) is the sequence of the identifiers        *)
(* separated by Comma.  Each helper has its own specification; the         *)
(* variables of the other helpers keep their initial value.                *)
(***************************************************************************)
EXTENDS Integers, Sequences, FiniteSets

VARIABLES
    op,               \* the function that was called
    pc,               \* "call" | "loop" | "returned" | "raised"
    requests,         \* the requests issued to the remote so far, in order
    responses,        \* the responses the remote gave so far, in order
    result,           \* the value returned to the caller (None before that)
    raised,           \* the exception that left the function, or NoExc
    printed,          \* what the function printed on the console
    channel_name,     \* get_channel_id_by_name: argument
    channel_ids,      \* get_channel_stats: argument
    playlist_id,      \* get_video_ids: argument
    playlist,         \* get_video_ids: the pages the remote holds
    video_ids,        \* get_video_ids: the accumulator (local video_ids)
    next_page_token,  \* get_video_ids: local next_page_token
    ids,              \* get_video_details: argument video_ids
    i,                \* get_video_details: loop variable i
    all_video_info    \* get_video_details: the accumulator

\* the arguments and the remote's playlist: no function changes them
args == <<op, channel_name, channel_ids, playlist_id, playlist, ids>>
enumLocals == <<video_ids, next_page_token>>
detailLocals == <<i, all_video_info>>

vars == <<pc, requests, responses, result, raised, printed, args, enumLocals,
          detailLocals>>

---------------------------------------------------------------------------
(* Bounds of the model                                                     *)

MaxSearchItems == 2     \* items in one search response
MaxChannels == 3        \* length of channel_ids, items in a channels response
MaxPageItems == 2       \* items on one playlist page
MaxRequests == 4        \* playlist requests followed before the model stops
MaxVideos == 125        \* length of the video_ids argument of get_video_details

---------------------------------------------------------------------------
(* Python values                                                           *)

None == -1
Comma == 0
NoExc == "none"

ChannelNames == {1, 2}
ChannelIdSet == {1, 2}
TitleSet == {11, 12}
VideoIdSet == {1, 2}
Tokens == {1, 2}

SeqsUpTo(S, n) == UNION {[1..k -> S] : k \in 0..n}

Min(a, b) == IF a < b THEN a ELSE b

HasKey(d, k) == k \in DOMAIN d

\* d.get(k, default)
DictGet(d, k, default) == IF HasKey(d, k) THEN d[k] ELSE default

\* list[a:b] for 0 <= a, 0 <= b (Python clips the slice to the list)
Slice(list, a, b) == SubSeq(list, a + 1, Min(b, Len(list)))

\* ','.join(list): the elements of list with a Comma between each two
Join(list) ==
    IF list = <<>> THEN <<>>
    ELSE [k \in 1..(2 * Len(list) - 1) |->
            IF k % 2 = 1 THEN list[(k + 1) \div 2] ELSE Comma]

\* The pandas DataFrame built from a list of dicts: the columns are the
\* union of the dicts' keys, a key missing from a row is filled with NaN.
NaN == "NaN"
DataFrame(data) ==
    LET cols == UNION {DOMAIN data[j] : j \in 1..Len(data)}
    IN [columns |-> cols,
        rows |-> [j \in 1..Len(data) |->
                    [c \in cols |-> IF c \in DOMAIN data[j] THEN data[j][c] ELSE NaN]]]

---------------------------------------------------------------------------
(* get_channel_id_by_name                                                  *)

ChannelKind == "youtube#channel"
VideoKind == "youtube#video"

\* The request built by youtube.search().list(...)
SearchRequest(name) ==
    [api |-> "search.list", q |-> name, part |-> "id,snippet",
     maxResults |-> 1, type |-> "channel"]

\* Items a search response may carry: channel results (with or without the
\* snippet group) and a result of another kind.
SearchItems ==
    {[id |-> [kind |-> ChannelKind, channelId |-> c], snippet |-> [title |-> t]] :
        c \in ChannelIdSet, t \in TitleSet}
    \cup {[id |-> [kind |-> ChannelKind, channelId |-> c]] : c \in ChannelIdSet}
    \cup {[id |-> [kind |-> VideoKind, videoId |-> 1], snippet |-> [title |-> 11]]}

SearchResponses ==
    {[items |-> s] : s \in SeqsUpTo(SearchItems, MaxSearchItems)}
    \cup {[kind |-> "youtube#searchListResponse"]}

\* The name HttpError is used at line 30 and the module imports only pandas.
HttpErrorDefined == FALSE

\* Mutant of SearchLoop: the kind of the result is not looked at.
SearchLoopNoKindCheck(items, k) ==
    IF k > Len(items) THEN [kind |-> "fallthrough"]
    ELSE IF HasKey(items[k]["id"], "channelId") /\ HasKey(items[k], "snippet")
    THEN [kind |-> "return",
          value |-> <<items[k]["id"]["channelId"], items[k]["snippet"]["title"]>>]
    ELSE [kind |-> "exception", exc |-> "KeyError"]

\* The for loop of lines 27-29 from item k on: the value returned from inside
\* the loop, the exception a subscript raises, or "fallthrough".
RECURSIVE SearchLoop(_, _)
SearchLoop(items, k) ==
    IF k > Len(items) THEN [kind |-> "fallthrough"]
    ELSE LET search_result == items[k] IN
         IF search_result["id"]["kind"] = ChannelKind
         THEN IF HasKey(search_result, "snippet")
              THEN [kind |-> "return",
                    value |-> <<search_result["id"]["channelId"],
                                search_result["snippet"]["title"]>>]
              ELSE [kind |-> "exception", exc |-> "KeyError"]
         ELSE SearchLoop(items, k + 1)

\* The except clauses: matching the exception against HttpError evaluates
\* the name HttpError first.
Handler(exc) ==
    IF ~HttpErrorDefined
    THEN [raised |-> "NameError", printed |-> <<>>, result |-> None]
    ELSE [raised |-> NoExc,
          printed |-> IF exc = "HttpError" THEN <<"An HTTP error">>
                      ELSE <<"An error occurred">>,
          result |-> <<None, None>>]

\* What leaves the try statement and the final return of line 34.
AfterTry(outcome) ==
    IF outcome.kind = "return"
    THEN [raised |-> NoExc, printed |-> <<>>, result |-> outcome.value]
    ELSE IF outcome.kind = "fallthrough"
    THEN [raised |-> NoExc, printed |-> <<>>, result |-> <<None, None>>]
    ELSE Handler(outcome.exc)

Finish(out) ==
    /\ pc' = IF out.raised = NoExc THEN "returned" ELSE "raised"
    /\ raised' = out.raised
    /\ printed' = out.printed
    /\ result' = out.result

\* execute() answers: lines 20-29 and 34
SearchExecute ==
    /\ op = "get_channel_id_by_name"
    /\ pc = "call"
    /\ \E resp \in SearchResponses :
         /\ requests' = Append(requests, SearchRequest(channel_name))
         /\ responses' = Append(responses, resp)
         /\ Finish(AfterTry(SearchLoop(DictGet(resp, "items", <<>>), 1)))
    /\ UNCHANGED <<args, enumLocals, detailLocals>>

\* execute() raises: the API's error response, or a transport error
SearchFault ==
    /\ op = "get_channel_id_by_name"
    /\ pc = "call"
    /\ \E exc \in {"HttpError", "Exception"} :
         /\ requests' = Append(requests, SearchRequest(channel_name))
         /\ responses' = Append(responses, [fault |-> exc])
         /\ Finish(AfterTry([kind |-> "exception", exc |-> exc]))
    /\ UNCHANGED <<args, enumLocals, detailLocals>>

\* The state a call starts in, whatever the function.
Fresh ==
    /\ requests = <<>> /\ responses = <<>>
    /\ result = None /\ raised = NoExc /\ printed = <<>>
    /\ video_ids = <<>> /\ next_page_token = None
    /\ i = 0 /\ all_video_info = <<>>

InitResolver ==
    /\ op = "get_channel_id_by_name" /\ pc = "call" /\ Fresh
    /\ channel_name \in ChannelNames
    /\ channel_ids = <<>> /\ playlist_id = None /\ playlist = <<>> /\ ids = <<>>

NextResolver == SearchFault \/ SearchExecute

SpecResolver == InitResolver /\ [][NextResolver]_vars


\* C7 witness: a call that returned the identifier and title of a channel
\* result.
C7_Witness ==
    /\ pc = "returned"
    /\ HasKey(responses[1], "items")
    /\ Len(responses[1].items) = 1
    /\ result = <<2, 12>>

\* The first position of a channel-kind result among items, or 0.
FirstChannel(items) ==
    IF \E k \in 1..Len(items) : items[k]["id"]["kind"] = ChannelKind
    THEN CHOOSE k \in 1..Len(items) :
            /\ items[k]["id"]["kind"] = ChannelKind
            /\ \A j \in 1..(k - 1) : items[j]["id"]["kind"] # ChannelKind
    ELSE 0

\* C7: get_channel_id_by_name issues exactly one search request (max one
\* result, type channel) and, when the remote answers with a response: with
\* no items or no channel-kind result the call returns (None, None); with a
\* channel-kind result that carries a title the call returns that result's
\* channel identifier and title.
C7_OneSearchAndResult ==
    (op = "get_channel_id_by_name" /\ pc # "call") =>
        /\ Len(requests) = 1
        /\ requests[1].api = "search.list"
        /\ requests[1].q = channel_name
        /\ requests[1].maxResults = 1
        /\ requests[1].type = "channel"
        /\ ~HasKey(responses[1], "fault") =>
             LET items == IF HasKey(responses[1], "items")
                          THEN responses[1].items ELSE <<>>
                 k == FirstChannel(items)
             IN /\ k = 0 =>
                     /\ pc = "returned"
                     /\ result = <<None, None>>
                /\ (k # 0 /\ HasKey(items[k], "snippet")) =>
                     /\ pc = "returned"
                     /\ result = <<items[k]["id"]["channelId"],
                                   items[k]["snippet"]["title"]>>

\* True when the search call failed or an exception was raised while the
\* response was processed.
SearchFailed ==
    /\ op = "get_channel_id_by_name"
    /\ pc # "call"
    /\ \/ HasKey(responses[1], "fault")
       \/ /\ HasKey(responses[1], "items")
          /\ FirstChannel(responses[1].items) # 0
          /\ ~HasKey(responses[1].items[FirstChannel(responses[1].items)], "snippet")

\* C4: when the search call of get_channel_id_by_name fails, or an exception
\* is raised while its response is processed, the call returns (None, None)
\* and reports the fault on the console; no exception reaches the caller.
C4_FaultGivesNotFound ==
    SearchFailed =>
        /\ pc = "returned"
        /\ raised = NoExc
        /\ result = <<None, None>>
        /\ Len(printed) > 0

---------------------------------------------------------------------------
(* get_channel_stats                                                       *)

\* The request built by youtube.channels().list(...)
ChannelsRequest(list) ==
    [api |-> "channels.list", part |-> "snippet,contentDetails,statistics",
     id |-> Join(list)]

\* The item the remote holds for channel c.
ChannelItem(c) ==
    [id |-> c,
     snippet |-> [title |-> 10 + c],
     statistics |-> [subscriberCount |-> 100 + c, viewCount |-> 200 + c,
                     videoCount |-> 300 + c],
     contentDetails |-> [relatedPlaylists |-> [uploads |-> 400 + c]]]

Range(list) == {list[k] : k \in 1..Len(list)}

\* The remote answers with items of requested channels, in an order and a
\* number of its own.
ChannelsResponses(list) ==
    {[items |-> [k \in 1..Len(s) |-> ChannelItem(s[k])]] :
        s \in SeqsUpTo(Range(list), MaxChannels)}

\* The dict built at lines 65-70
ChannelData(item) ==
    [channelName |-> item["snippet"]["title"],
     subscribers |-> item["statistics"]["subscriberCount"],
     views |-> item["statistics"]["viewCount"],
     totalVideos |-> item["statistics"]["videoCount"],
     playlistId |-> item["contentDetails"]["relatedPlaylists"]["uploads"]]

\* Mutant of AllData: the loop is left after its first turn.
AllDataFirstOnly(items) ==
    [k \in 1..Min(1, Len(items)) |-> ChannelData(items[k])]

\* The for loop of lines 64-72: all_data
AllData(items) == [k \in 1..Len(items) |-> ChannelData(items[k])]

\* execute() answers: lines 55-74
ChannelsExecute ==
    /\ op = "get_channel_stats"
    /\ pc = "call"
    /\ \E resp \in ChannelsResponses(channel_ids) :
         /\ requests' = Append(requests, ChannelsRequest(channel_ids))
         /\ responses' = Append(responses, resp)
         /\ result' = DataFrame(AllData(resp["items"]))
    /\ pc' = "returned"
    /\ UNCHANGED <<raised, printed, args, enumLocals, detailLocals>>

\* execute() raises at line 61; nothing catches it
ChannelsFault ==
    /\ op = "get_channel_stats"
    /\ pc = "call"
    /\ requests' = Append(requests, ChannelsRequest(channel_ids))
    /\ responses' = Append(responses, [fault |-> "HttpError"])
    /\ raised' = "HttpError"
    /\ pc' = "raised"
    /\ UNCHANGED <<result, printed, args, enumLocals, detailLocals>>

InitStats ==
    /\ op = "get_channel_stats" /\ pc = "call" /\ Fresh
    /\ channel_ids \in SeqsUpTo(ChannelIdSet, MaxChannels)
    /\ channel_name = None /\ playlist_id = None /\ playlist = <<>> /\ ids = <<>>

NextStats == ChannelsExecute \/ ChannelsFault

SpecStats == InitStats /\ [][NextStats]_vars

\* The identifiers a comma-separated filter names, as the remote reads it:
\* the filter split at its commas.
\* str.split(','), by halves: the last field of the left half and the first
\* field of the right half are one field.
RECURSIVE SplitRange(_, _, _)
SplitRange(str, lo, hi) ==
    IF lo > hi THEN << <<>> >>
    ELSE IF lo = hi
    THEN (IF str[lo] = Comma THEN << <<>>, <<>> >> ELSE << <<str[lo]>> >>)
    ELSE LET mid == (lo + hi) \div 2
             left == SplitRange(str, lo, mid)
             right == SplitRange(str, mid + 1, hi)
         IN SubSeq(left, 1, Len(left) - 1)
            \o << left[Len(left)] \o right[1] >>
            \o Tail(right)

Split(str) == SplitRange(str, 1, Len(str))

\* C5: get_channel_stats called with an empty channel_ids issues no request
\* and fails with ValueError.
C5_EmptyRejected ==
    (op = "get_channel_stats" /\ channel_ids = <<>> /\ pc # "call") =>
        /\ requests = <<>>
        /\ raised = "ValueError"

\* C8 witness: two channels asked for, both answered, in the other order.
C8_Witness ==
    /\ pc = "returned"
    /\ channel_ids = <<1, 2>>
    /\ Len(responses[1].items) = 2
    /\ responses[1].items[1].id = 2
    /\ responses[1].items[2].id = 1

\* C8: for a non-empty channel_ids, get_channel_stats issues exactly one
\* channels.list request whose filter is all identifiers joined by commas,
\* and, when the remote answers, returns one row per item of the response,
\* in response order, each row with that item's title, subscriber count,
\* view count, video count and uploads playlist identifier.
C8_OneRequestOneRowPerItem ==
    (op = "get_channel_stats" /\ channel_ids # <<>> /\ pc # "call") =>
        /\ Len(requests) = 1
        /\ requests[1].api = "channels.list"
        /\ Split(requests[1].id) = [k \in 1..Len(channel_ids) |-> <<channel_ids[k]>>]
        /\ ~HasKey(responses[1], "fault") =>
             LET items == responses[1].items IN
             /\ pc = "returned"
             /\ Len(result.rows) = Len(items)
             /\ \A k \in 1..Len(items) :
                  /\ result.rows[k].channelName = items[k].snippet.title
                  /\ result.rows[k].subscribers = items[k].statistics.subscriberCount
                  /\ result.rows[k].views = items[k].statistics.viewCount
                  /\ result.rows[k].totalVideos = items[k].statistics.videoCount
                  /\ result.rows[k].playlistId =
                        items[k].contentDetails.relatedPlaylists.uploads

---------------------------------------------------------------------------
(* get_video_ids                                                           *)

\* The request built by youtube.playlistItems().list(...): the first one
\* (lines 95-99) has no pageToken, the later ones (lines 107-112) carry one.
PlaylistRequest(id, token) ==
    IF token = None
    THEN [api |-> "playlistItems.list", part |-> "snippet, contentDetails",
          playlistId |-> id, maxResults |-> 50]
    ELSE [api |-> "playlistItems.list", part |-> "snippet, contentDetails",
          playlistId |-> id, maxResults |-> 50, pageToken |-> token]

PlaylistItems == {[contentDetails |-> [videoId |-> v]] : v \in VideoIdSet}

\* A page the remote may hold: its items, and a continuation token or none.
Pages ==
    {[items |-> s] : s \in SeqsUpTo(PlaylistItems, MaxPageItems)}
    \cup {[items |-> s, nextPageToken |-> t] :
            s \in SeqsUpTo(PlaylistItems, MaxPageItems), t \in Tokens}

\* The remote holds one page for the request without token (None) and one
\* for each token.
Playlists == [{None} \cup Tokens -> Pages]

\* Mutant of PageVideoIds: an identifier is taken once per page.
PageVideoIdsDistinct(response) ==
    LET all == [k \in 1..Len(response["items"]) |->
                    response["items"][k]["contentDetails"]["videoId"]]
        first == {k \in 1..Len(all) : \A j \in 1..(k - 1) : all[j] # all[k]}
        nth(m) == CHOOSE k \in first : Cardinality({j \in first : j < k}) = m - 1
    IN [m \in 1..Cardinality(first) |-> all[nth(m)]]

\* The for loops of lines 102-103 and 115-116: the identifiers one response
\* appends to video_ids
PageVideoIds(response) ==
    [k \in 1..Len(response["items"]) |->
        response["items"][k]["contentDetails"]["videoId"]]

\* Mutant of NextPageToken: the token is read under another key.
NextPageTokenWrongKey(response) == DictGet(response, "pageToken", None)

\* response.get('nextPageToken')
NextPageToken(response) == DictGet(response, "nextPageToken", None)

\* lines 93-105: the first request and its response
FirstPage ==
    /\ op = "get_video_ids"
    /\ pc = "call"
    /\ LET response == playlist[None] IN
         /\ requests' = Append(requests, PlaylistRequest(playlist_id, None))
         /\ responses' = Append(responses, response)
         /\ video_ids' = video_ids \o PageVideoIds(response)
         /\ next_page_token' = NextPageToken(response)
    /\ pc' = "loop"
    /\ UNCHANGED <<result, raised, printed, args, detailLocals>>

\* lines 106-118: one turn of the while loop
NextPage ==
    /\ op = "get_video_ids"
    /\ pc = "loop"
    /\ next_page_token # None
    /\ Len(requests) < MaxRequests
    /\ LET response == playlist[next_page_token] IN
         /\ requests' = Append(requests, PlaylistRequest(playlist_id, next_page_token))
         /\ responses' = Append(responses, response)
         /\ video_ids' = video_ids \o PageVideoIds(response)
         /\ next_page_token' = NextPageToken(response)
    /\ UNCHANGED <<pc, result, raised, printed, args, detailLocals>>

\* line 120
ReturnVideoIds ==
    /\ op = "get_video_ids"
    /\ pc = "loop"
    /\ next_page_token = None
    /\ result' = video_ids
    /\ pc' = "returned"
    /\ UNCHANGED <<requests, responses, raised, printed, args, enumLocals,
                   detailLocals>>

\* execute() raises at line 100 or line 113; nothing catches it
PageFault ==
    /\ op = "get_video_ids"
    /\ \/ pc = "call"
       \/ pc = "loop" /\ next_page_token # None /\ Len(requests) < MaxRequests
    /\ requests' = Append(requests, PlaylistRequest(playlist_id, next_page_token))
    /\ responses' = Append(responses, [fault |-> "HttpError"])
    /\ raised' = "HttpError"
    /\ pc' = "raised"
    /\ UNCHANGED <<result, printed, args, enumLocals, detailLocals>>

InitEnum ==
    /\ op = "get_video_ids" /\ pc = "call" /\ Fresh
    /\ playlist_id = 1
    /\ playlist \in Playlists
    /\ channel_name = None /\ channel_ids = <<>> /\ ids = <<>>

NextEnum == FirstPage \/ NextPage \/ ReturnVideoIds \/ PageFault

SpecEnum == InitEnum /\ [][NextEnum]_vars

\* The function runs on as long as the remote answers.
FairSpecEnum == SpecEnum /\ WF_vars(NextEnum)

\* The pages a walk from the request with token tok meets, following each
\* page's continuation token, at most fuel pages.
RECURSIVE ChainFrom(_, _)
ChainFrom(tok, fuel) ==
    IF fuel = 0 THEN <<>>
    ELSE IF HasKey(playlist[tok], "nextPageToken")
    THEN <<playlist[tok]>> \o ChainFrom(playlist[tok].nextPageToken, fuel - 1)
    ELSE <<playlist[tok]>>

\* The remote holds one page per token, so a walk that has not met a page
\* without token after one page per request key never meets one.
Chain == ChainFrom(None, Cardinality(Tokens) + 1)
ChainEnds == ~HasKey(Chain[Len(Chain)], "nextPageToken")

RECURSIVE ConcatIds(_)
ConcatIds(pages) ==
    IF pages = <<>> THEN <<>>
    ELSE [k \in 1..Len(pages[1].items) |-> pages[1].items[k].contentDetails.videoId]
         \o ConcatIds(Tail(pages))

\* C1 witness: a chain of three pages with 2, 2 and 1 items, walked to its
\* end, on which an identifier occurs on two pages.
C1_Witness ==
    /\ op = "get_video_ids"
    /\ pc = "returned"
    /\ Len(responses) = 3
    /\ Len(responses[1].items) = 2
    /\ Len(responses[2].items) = 2
    /\ Len(responses[3].items) = 1
    /\ responses[1].items[1] = responses[2].items[2]

\* C1: for a finite chain of pages, get_video_ids returns exactly the
\* concatenation of the pages' video identifiers, in request order and in
\* the order within each page: nothing dropped, reordered or deduplicated.
C1_ConcatenationOfPages ==
    (op = "get_video_ids" /\ pc = "returned") =>
        /\ ChainEnds
        /\ responses = Chain
        /\ result = ConcatIds(Chain)

\* The token discipline of the page walk: one request per response, the
\* first request without token, each later request with the token of the
\* response before it, and no request after a response without token.
TokenDiscipline ==
    /\ Len(requests) = Len(responses)
    /\ pc # "call" => ~HasKey(requests[1], "pageToken")
    /\ \A k \in 2..Len(requests) :
         /\ HasKey(responses[k - 1], "nextPageToken")
         /\ HasKey(requests[k], "pageToken")
         /\ requests[k].pageToken = responses[k - 1].nextPageToken
    /\ pc = "returned" => ~HasKey(responses[Len(responses)], "nextPageToken")

\* C9 witness: a remote that returns a token on every page, followed until
\* the model's bound on requests.
C9_Witness ==
    /\ op = "get_video_ids"
    /\ ~ChainEnds
    /\ pc = "loop"
    /\ Len(requests) = MaxRequests
    /\ \A k \in 1..Len(responses) : HasKey(responses[k], "nextPageToken")

\* C9: get_video_ids follows the tokens (first request without token, each
\* later request with the token of the response before it, one request per
\* page, none after a response without token); it returns only when the
\* remote's chain of pages ends, never when every page carries a token, and
\* when the chain ends the call ends.
C9_TerminatesIffChainEnds ==
    /\ [](op = "get_video_ids" => TokenDiscipline)
    /\ []((op = "get_video_ids" /\ pc = "returned") => ChainEnds)
    /\ []((op = "get_video_ids" /\ ~ChainEnds) => pc # "returned")
    /\ (op = "get_video_ids" /\ ChainEnds) ~> (pc = "returned" \/ pc = "raised")
    /\ []((op = "get_video_ids" /\ ChainEnds /\ pc = "loop"
           /\ next_page_token = None) => Len(requests) = Len(Chain))

---------------------------------------------------------------------------
(* get_video_details                                                       *)

BatchSize == 50

\* stats_to_keep, lines 155-159
stats_to_keep ==
    [snippet |-> <<"channelTitle", "title", "description", "tags", "publishedAt">>,
     statistics |-> <<"viewCount", "likeCount", "favoriteCount", "commentCount">>,
     contentDetails |-> <<"duration", "definition", "caption">>]

\* The value the remote holds for an attribute of video v.
AttrValue(v, group, k) ==
    v * 100 + (IF group = "snippet" THEN 0 ELSE IF group = "statistics" THEN 10 ELSE 20) + k

Shapes == <<"full", "noTags", "noStatistics", "bare">>

\* The item the remote returns for video v: complete, without the tags
\* attribute, without the statistics group, or with the identifier only.
VideoItem(v, shape) ==
    LET group(g) == [a \in {stats_to_keep[g][k] : k \in 1..Len(stats_to_keep[g])} |->
                        AttrValue(v, g, CHOOSE k \in 1..Len(stats_to_keep[g]) :
                                            stats_to_keep[g][k] = a)]
        snippet == group("snippet")
        noTags == [a \in DOMAIN snippet \ {"tags"} |-> snippet[a]]
    IN CASE shape = "full" ->
              [id |-> v, snippet |-> snippet, statistics |-> group("statistics"),
               contentDetails |-> group("contentDetails")]
         [] shape = "noTags" ->
              [id |-> v, snippet |-> noTags, statistics |-> group("statistics"),
               contentDetails |-> group("contentDetails")]
         [] shape = "noStatistics" ->
              [id |-> v, snippet |-> snippet,
               contentDetails |-> group("contentDetails")]
         [] OTHER -> [id |-> v]

\* Mutant of VideosRequest: the slice is one identifier short.
VideosRequestShortSlice(list, start) ==
    [api |-> "videos.list", part |-> "snippet,contentDetails,statistics",
     id |-> Join(Slice(list, start, start + BatchSize - 1))]

\* The request built by youtube.videos().list(...), lines 147-150
VideosRequest(list, start) ==
    [api |-> "videos.list", part |-> "snippet,contentDetails,statistics",
     id |-> Join(Slice(list, start, start + BatchSize))]

\* The identifiers the remote reads in a request's filter.
RequestedIds(request) ==
    LET fields == Split(request.id)
    IN IF request.id = <<>> THEN <<>>
       ELSE [k \in 1..Len(fields) |-> fields[k][1]]

\* The remote answers a request in one of these ways: every requested video
\* complete and in request order; every requested video, with attributes
\* and groups missing; every requested video in reverse order; all but the
\* last requested video.
Answers == {"echo", "sparse", "reversed", "short"}
VideosResponse(request, answer) ==
    LET wanted == RequestedIds(request)
        n == Len(wanted)
    IN CASE answer = "echo" ->
              [items |-> [k \in 1..n |-> VideoItem(wanted[k], "full")]]
         [] answer = "sparse" ->
              [items |-> [k \in 1..n |->
                            VideoItem(wanted[k], Shapes[(k % Len(Shapes)) + 1])]]
         [] answer = "reversed" ->
              [items |-> [k \in 1..n |-> VideoItem(wanted[n + 1 - k], "full")]]
         [] OTHER ->
              [items |-> [k \in 1..(n - 1) |-> VideoItem(wanted[k], "full")]]

\* Mutant of FieldValue: the statistics group is looked up under another name.
FieldValueWrongGroup(video, k, v) ==
    IF k # "statistics" /\ HasKey(video, k) /\ HasKey(video[k], v)
    THEN video[k][v] ELSE None

\* lines 166-169: video[k][v], or None when the subscript raises KeyError
FieldValue(video, k, v) ==
    IF HasKey(video, k) /\ HasKey(video[k], v) THEN video[k][v] ELSE None

Columns ==
    {"video_id"} \cup UNION {{stats_to_keep[g][k] : k \in 1..Len(stats_to_keep[g])} :
                                g \in DOMAIN stats_to_keep}

GroupOf(v) ==
    CHOOSE g \in DOMAIN stats_to_keep :
        \E k \in 1..Len(stats_to_keep[g]) : stats_to_keep[g][k] = v

\* lines 161-169: the dict video_info built for one response item
VideoInfo(video) ==
    [v \in Columns |-> IF v = "video_id" THEN video["id"]
                       ELSE FieldValue(video, GroupOf(v), v)]

\* lines 154-171: what one response appends to all_video_info
ResponseInfo(response) ==
    [k \in 1..Len(response["items"]) |-> VideoInfo(response["items"][k])]

\* lines 146-171: one turn of the for loop over range(0, len(video_ids), 50)
VideosBatch ==
    /\ op = "get_video_details"
    /\ pc = "loop"
    /\ i < Len(ids)
    /\ LET request == VideosRequest(ids, i) IN
       \E answer \in Answers :
         LET response == VideosResponse(request, answer)
         IN /\ requests' = Append(requests, request)
            /\ responses' = Append(responses, response)
            /\ all_video_info' = all_video_info \o ResponseInfo(response)
    /\ i' = i + BatchSize
    /\ UNCHANGED <<pc, result, raised, printed, args, enumLocals>>

\* Mutant of VideosFault: the exception is caught and the loop goes on.
VideosFaultSkipped ==
    /\ op = "get_video_details"
    /\ pc = "loop"
    /\ i < Len(ids)
    /\ requests' = Append(requests, [api |-> "videos.list",
                                     part |-> "snippet,contentDetails,statistics",
                                     id |-> Join(Slice(ids, i, i + BatchSize))])
    /\ responses' = Append(responses, [fault |-> "HttpError"])
    /\ i' = i + BatchSize
    /\ UNCHANGED <<pc, result, raised, printed, args, enumLocals, all_video_info>>

\* execute() raises at line 151; nothing catches it
VideosFault ==
    /\ op = "get_video_details"
    /\ pc = "loop"
    /\ i < Len(ids)
    /\ requests' = Append(requests, VideosRequest(ids, i))
    /\ responses' = Append(responses, [fault |-> "HttpError"])
    /\ raised' = "HttpError"
    /\ pc' = "raised"
    /\ UNCHANGED <<result, printed, args, enumLocals, detailLocals>>

\* line 173
ReturnDetails ==
    /\ op = "get_video_details"
    /\ pc = "loop"
    /\ i >= Len(ids)
    /\ result' = DataFrame(all_video_info)
    /\ pc' = "returned"
    /\ UNCHANGED <<requests, responses, raised, printed, args, enumLocals,
                   detailLocals>>

InitDetails ==
    /\ op = "get_video_details" /\ pc = "loop" /\ Fresh
    /\ \E n \in 0..MaxVideos : ids = [k \in 1..n |-> k]
    /\ channel_name = None /\ channel_ids = <<>> /\ playlist_id = None
    /\ playlist = <<>>

NextDetails == VideosBatch \/ VideosFault \/ ReturnDetails

SpecDetails == InitDetails /\ [][NextDetails]_vars

\* The items of all responses received so far, in order.
RECURSIVE AllItems(_)
AllItems(resps) ==
    IF resps = <<>> THEN <<>>
    ELSE (IF HasKey(resps[1], "items") THEN resps[1].items ELSE <<>>)
         \o AllItems(Tail(resps))

\* C2 witness: 125 identifiers, every one answered, the table returned.
C2_Witness ==
    /\ op = "get_video_details"
    /\ pc = "returned"
    /\ Len(ids) = 125
    /\ Len(requests) = 3
    /\ Len(result.rows) = 125

\* C2: for n identifiers get_video_details issues ceil(n/50) requests, in
\* ascending batch order, request k carrying exactly the identifiers at the
\* positions [50k, 50k+50) of the input; for n = 125 these are 3 requests of
\* 50, 50 and 25 identifiers, and when the remote returns one item per
\* requested identifier the table has n rows.
C2_BatchesOfFifty ==
    op = "get_video_details" =>
        LET n == Len(ids)
            sent == [k \in 1..Len(requests) |-> RequestedIds(requests[k])]
        IN /\ Len(requests) <= (n + 49) \div 50
           /\ \A k \in 1..Len(requests) :
                /\ sent[k] = SubSeq(ids, 50 * (k - 1) + 1, Min(50 * k, n))
                /\ Len(sent[k]) >= 1
                /\ Len(sent[k]) <= 50
           /\ pc = "returned" =>
                /\ Len(requests) = (n + 49) \div 50
                /\ (n = 125 => [k \in 1..3 |-> Len(sent[k])] = <<50, 50, 25>>)
                /\ (\A k \in 1..Len(requests) :
                        Len(responses[k].items) = Len(sent[k]))
                   => Len(result.rows) = n

\* The attribute names of the schema, by group.
SchemaGroups == {"snippet", "statistics", "contentDetails"}
Schema(g) ==
    IF g = "snippet"
    THEN {"channelTitle", "title", "description", "tags", "publishedAt"}
    ELSE IF g = "statistics"
    THEN {"viewCount", "likeCount", "favoriteCount", "commentCount"}
    ELSE {"duration", "definition", "caption"}

FixedColumns ==
    {"video_id", "channelTitle", "title", "description", "tags", "publishedAt",
     "viewCount", "likeCount", "favoriteCount", "commentCount", "duration",
     "definition", "caption"}

\* The record is the one the schema asks for the response item.
RecordOf(info, item) ==
    /\ DOMAIN info = FixedColumns
    /\ info["video_id"] = item["id"]
    /\ \A g \in SchemaGroups : \A a \in Schema(g) :
         IF HasKey(item, g) /\ HasKey(item[g], a)
         THEN info[a] = item[g][a]
         ELSE info[a] = None

\* C3 witness: a returned table with a row whose item lacked the tags
\* attribute, a row whose item lacked the statistics group, and a row whose
\* item was complete.
C3_Witness ==
    /\ op = "get_video_details"
    /\ pc = "returned"
    /\ \E j \in 1..Len(result.rows) :
         /\ result.rows[j]["tags"] = None
         /\ result.rows[j]["title"] # None
    /\ \E j \in 1..Len(result.rows) :
         /\ result.rows[j]["viewCount"] = None
         /\ result.rows[j]["tags"] # None
    /\ \E j \in 1..Len(result.rows) :
         \A c \in FixedColumns : result.rows[j][c] # None

\* C3: every record of get_video_details has the item identifier and all
\* twelve attribute names; an attribute whose name or whose group is missing
\* from the response item is None, every other attribute has its response
\* value, and a missing attribute or group raises nothing.
C3_EveryAttributeInEveryRecord ==
    op = "get_video_details" =>
        LET items == AllItems(responses) IN
        /\ Len(all_video_info) = Len(items)
        /\ \A j \in 1..Len(items) : RecordOf(all_video_info[j], items[j])
        /\ raised \in {NoExc, "HttpError"}
        /\ raised = "HttpError" => HasKey(responses[Len(responses)], "fault")
        /\ pc = "returned" =>
             /\ Len(result.rows) = Len(items)
             /\ \A j \in 1..Len(items) : RecordOf(result.rows[j], items[j])

\* C6: get_video_details called with an empty list issues no request and
\* returns a table with no rows and the full fixed column set.
C6_EmptyTableHasColumns ==
    (op = "get_video_details" /\ ids = <<>> /\ pc = "returned") =>
        /\ requests = <<>>
        /\ Len(result.rows) = 0
        /\ result.columns = FixedColumns

---------------------------------------------------------------------------
(* The four functions together                                             *)

Init == InitResolver \/ InitStats \/ InitEnum \/ InitDetails

Next == NextResolver \/ NextStats \/ NextEnum \/ NextDetails

Spec == Init /\ [][Next]_vars

FailFast == {"get_channel_stats", "get_video_ids", "get_video_details"}

\* C10 witness: the third request of get_video_details faults.
C10_Witness ==
    /\ op = "get_video_details"
    /\ pc = "raised"
    /\ Len(requests) = 3
    /\ HasKey(responses[3], "fault")
    /\ Len(all_video_info) > 0

\* C10: in get_channel_stats, get_video_ids and get_video_details a fault of
\* the remote on any request reaches the caller as it is: the call ends with
\* that exception, returns nothing, and issues no request after the one that
\* faulted.
C10_FaultsPropagate ==
    op \in FailFast =>
        /\ \A k \in 1..Len(responses) :
             HasKey(responses[k], "fault") =>
                /\ k = Len(responses)
                /\ Len(requests) = k
                /\ pc = "raised"
                /\ raised = responses[k].fault
                /\ result = None
        /\ pc = "raised" =>
             /\ responses # <<>>
             /\ HasKey(responses[Len(responses)], "fault")

=============================================================================
